---- MODULE Spec2Model ----
(***************************************************************************)
(* SlotMapVec (src/src/lib.rs): a Vec-backed slot map with versioned       *)
(* indices.  The container is the triple (entries, next_free, len); every  *)
(* public method is one action, translated from its body.                  *)
(*                                                                         *)
(* Number representation.  `usize` quantities (positions in `entries`,     *)
(* next_free, len) are naturals.  A `u32` (SlotMapIndex.slot,              *)
(* SlotMapIndex.version, Entry.version) is held as the integer that has    *)
(* the same 32 bits in two's complement: 0 .. 2^31-1 stand for themselves, *)
(* and 2^31 .. 2^32-1 are held as x - 2^32, so u32::MAX is -1 and          *)
(* u32::MAX - 1 is -2.  The integers of the model checker are 32 bits      *)
(* wide, so this keeps the full width of the counter.                      *)
(***************************************************************************)
EXTENDS Integers, Sequences, FiniteSets

VARIABLES entries, next_free, len, halted, issued, removed, wrapped, freed,
          max_len, inserts, last, wide

vars == <<entries, next_free, len, halted, issued, removed, wrapped, freed,
          max_len, inserts, last, wide>>

(***************************************************************************)
(* Bounds of the model.                                                    *)
(***************************************************************************)
\* number of insert calls in one run
MaxInserts == 3

\* the values stored (the type parameter T)
Values == {10, 20}

(***************************************************************************)
(* u32                                                                     *)
(***************************************************************************)
\* u32::MAX, 0xFFFF_FFFF
U32_MAX == -1

\* a < b as unsigned 32-bit numbers
U32Less(a, b) == IF (a < 0) = (b < 0) THEN a < b ELSE b < 0

\* `x as u32` for a usize x: the low 32 bits, taken as two halves of 16 bits
AsU32(x) ==
    LET lo == x % 65536
        hi == (x \div 65536) % 65536
    IN  IF hi < 32768 THEN hi * 65536 + lo ELSE (hi - 65536) * 65536 + lo

\* `x as usize` for a u32 x: zero extension.  A u32 of 2^31 or more is held
\* as a negative number and stays one: it is a position beyond any vector
\* this model builds, and InRange rejects it as the source's bounds check does.
AsUsize(x) == x

\* a faulty `+ 1`: the version is carried over unchanged
WrappingAdd1_Unchanged(v) == v

\* a faulty `v + 1`: saturates at u32::MAX
WrappingAdd1_Saturating(v) ==
    IF v = U32_MAX THEN U32_MAX
    ELSE IF v = 2147483647 THEN (-2147483647) - 1
    ELSE v + 1

\* u32 `v + 1` in a build without overflow checks: wraps modulo 2^32
WrappingAdd1(v) ==
    IF v = U32_MAX THEN 0
    ELSE IF v = 2147483647 THEN (-2147483647) - 1
    ELSE v + 1

(***************************************************************************)
(* A usize of a 64-bit target, for positions of 2^32 and beyond: its upper *)
(* and its lower 32 bits, each held as a u32 is.                           *)
(***************************************************************************)
Usize64(hi, lo) == [hi |-> hi, lo |-> lo]

\* `x as u32` for a 64-bit usize x: the upper 32 bits are dropped
Usize64AsU32(x) == x.lo

\* `x as usize` for a u32 x on a 64-bit target: zero extension
U32AsUsize64(x) == Usize64(0, x)

\* `x + 1` for a 64-bit usize x, with the carry into the upper half
Usize64Add1(x) ==
    IF x.lo = U32_MAX THEN Usize64(x.hi + 1, 0) ELSE Usize64(x.hi, WrappingAdd1(x.lo))

\* a < b for 64-bit usizes
Usize64Less(a, b) == a.hi < b.hi \/ (a.hi = b.hi /\ U32Less(a.lo, b.lo))

(***************************************************************************)
(* Data                                                                    *)
(***************************************************************************)
None == <<>>
Some(x) == <<x>>

Free(next) == [tag |-> "Free", next |-> next]
Occupied(val) == [tag |-> "Occupied", val |-> val]
IsFree(c) == c.tag = "Free"
IsOccupied(c) == c.tag = "Occupied"

Entry(version, content) == [version |-> version, content |-> content]

SlotMapIndex(slot, version) == [slot |-> slot, version |-> version]

SlotMapVec(e, nf, l) == [entries |-> e, next_free |-> nf, len |-> l]

\* entries[i] of the source (0-based), and entries.get(i)
At(m, i) == m.entries[i + 1]
InRange(m, i) == i >= 0 /\ i < Len(m.entries)

\* SlotMapVec::new / with_capacity: no entries, len 0, next_free 0
new == SlotMapVec(<<>>, 0, 0)

(***************************************************************************)
(* Lookups.  A panic is reported as [panic |-> TRUE]; an Option is None or *)
(* Some(x); a reference to a stored value is the position that holds it.   *)
(***************************************************************************)
\* a faulty get: the version of the key is not compared
get_AnyVersion(m, key) ==
    LET i == AsUsize(key.slot) IN
    IF InRange(m, i) /\ IsOccupied(At(m, i).content)
    THEN Some(At(m, i).content.val)
    ELSE None

\* SlotMapVec::get
get(m, key) ==
    LET i == AsUsize(key.slot) IN
    IF InRange(m, i) /\ IsOccupied(At(m, i).content)
    THEN IF At(m, i).version = key.version
         THEN Some(At(m, i).content.val)
         ELSE None
    ELSE None

\* SlotMapVec::get_mut: the reference handed out, as the position it points at
get_mut(m, key) ==
    LET i == AsUsize(key.slot) IN
    IF InRange(m, i) /\ IsOccupied(At(m, i).content)
    THEN IF At(m, i).version = key.version
         THEN Some(i)
         ELSE None
    ELSE None

\* a faulty contains: true for the key of an entry that is Free
contains_FreeToo(m, key) ==
    LET i == AsUsize(key.slot) IN
    IF InRange(m, i)
    THEN At(m, i).version = key.version
    ELSE FALSE

\* SlotMapVec::contains
contains(m, key) ==
    LET i == AsUsize(key.slot) IN
    IF InRange(m, i) /\ IsOccupied(At(m, i).content)
    THEN At(m, i).version = key.version
    ELSE FALSE

\* Index::index: entries[..] panics out of range, the match panics otherwise
index(m, key) ==
    LET i == AsUsize(key.slot) IN
    IF ~InRange(m, i) THEN [panic |-> TRUE, ret |-> None]
    ELSE IF IsOccupied(At(m, i).content)
         THEN IF At(m, i).version # key.version
              THEN [panic |-> TRUE, ret |-> None]
              ELSE [panic |-> FALSE, ret |-> Some(At(m, i).content.val)]
         ELSE [panic |-> TRUE, ret |-> None]

\* IndexMut::index_mut: as index, the reference being the position
index_mut(m, key) ==
    LET i == AsUsize(key.slot) IN
    IF ~InRange(m, i) THEN [panic |-> TRUE, ret |-> None]
    ELSE IF IsOccupied(At(m, i).content)
         THEN IF At(m, i).version # key.version
              THEN [panic |-> TRUE, ret |-> None]
              ELSE [panic |-> FALSE, ret |-> Some(i)]
         ELSE [panic |-> TRUE, ret |-> None]

\* a write through a reference obtained from get_mut / index_mut / iter_mut
\* a faulty write: the whole entry is replaced by a fresh one
WriteAt_NewEntry(m, i, val) ==
    [m EXCEPT !.entries[i + 1] = Entry(0, Occupied(val))]

WriteAt(m, i, val) ==
    [m EXCEPT !.entries[i + 1].content = Occupied(val)]

\* SlotMapVec::len, SlotMapVec::is_empty
len_of(m) == m.len
is_empty(m) == m.len = 0

(***************************************************************************)
(* insert and remove.  Each returns [panic, map, ret]: whether the call    *)
(* panicked, the container afterwards, and the value returned.             *)
(***************************************************************************)
\* SlotMapVec::insert, the branch taken when next_free == entries.len():
\* push a new entry with version 0
insert_grow(m, val) ==
    LET slot == m.next_free IN
    [panic |-> FALSE,
     map   |-> SlotMapVec(Append(m.entries, Entry(0, Occupied(val))),
                          m.next_free + 1,
                          m.len + 1),
     ret   |-> SlotMapIndex(AsU32(slot), 0)]

\* a faulty reuse branch: the key returned carries the version the entry had
\* before the reuse
insert_reuse_StaleKey(m, val, overflow_checks) ==
    LET slot == m.next_free IN
    IF ~InRange(m, slot)
    THEN [panic |-> TRUE, map |-> m, ret |-> None]
    ELSE IF At(m, slot).version = U32_MAX /\ overflow_checks
    THEN [panic |-> TRUE, map |-> m, ret |-> None]
    ELSE LET version  == WrappingAdd1(At(m, slot).version)
             prev     == At(m, slot)
             replaced == [m EXCEPT !.entries[slot + 1] =
                                       Entry(version, Occupied(val))]
         IN  IF IsFree(prev.content)
             THEN [panic |-> FALSE,
                   map   |-> [replaced EXCEPT !.next_free = prev.content.next,
                                              !.len = m.len + 1],
                   ret   |-> SlotMapIndex(AsU32(slot), prev.version)]
             ELSE [panic |-> TRUE, map |-> replaced, ret |-> None]

\* SlotMapVec::insert, the else branch: recycle the entry at next_free.
\* entries[slot] panics out of range; `version + 1` panics at u32::MAX in a
\* build with overflow checks and wraps in one without; the entry is
\* replaced before the old content is found not to be Free.
insert_reuse(m, val, overflow_checks) ==
    LET slot == m.next_free IN
    IF ~InRange(m, slot)
    THEN [panic |-> TRUE, map |-> m, ret |-> None]
    ELSE IF At(m, slot).version = U32_MAX /\ overflow_checks
    THEN [panic |-> TRUE, map |-> m, ret |-> None]
    ELSE LET version  == WrappingAdd1(At(m, slot).version)
             prev     == At(m, slot)
             replaced == [m EXCEPT !.entries[slot + 1] =
                                       Entry(version, Occupied(val))]
         IN  IF IsFree(prev.content)
             THEN [panic |-> FALSE,
                   map   |-> [replaced EXCEPT !.next_free = prev.content.next,
                                              !.len = m.len + 1],
                   ret   |-> SlotMapIndex(AsU32(slot), version)]
             ELSE [panic |-> TRUE, map |-> replaced, ret |-> None]

\* SlotMapVec::insert; overflow_checks is the build's setting for `+ 1`
insert(m, val, overflow_checks) ==
    IF m.next_free = Len(m.entries)
    THEN insert_grow(m, val)
    ELSE insert_reuse(m, val, overflow_checks)

\* a faulty remove: an entry freed at the tail of the storage is popped
remove_PopsTail(m, key) ==
    LET i == AsUsize(key.slot) IN
    IF InRange(m, i)
    THEN IF At(m, i).version # key.version
         THEN [panic |-> FALSE, map |-> m, ret |-> None]
         ELSE IF IsFree(At(m, i).content)
         THEN [panic |-> FALSE, map |-> m, ret |-> None]
         ELSE LET prev == At(m, i).content IN
              [panic |-> ~IsOccupied(prev),
               map   |-> IF i = Len(m.entries) - 1
                         THEN SlotMapVec(SubSeq(m.entries, 1, i),
                                         IF m.next_free = Len(m.entries)
                                         THEN i ELSE m.next_free,
                                         m.len - 1)
                         ELSE [m EXCEPT !.entries[i + 1].content = Free(m.next_free),
                                        !.next_free = AsUsize(key.slot),
                                        !.len = m.len - 1],
               ret   |-> IF IsOccupied(prev) THEN Some(prev.val) ELSE None]
    ELSE [panic |-> FALSE, map |-> m, ret |-> None]

\* a faulty remove: the version is advanced when the entry is freed
remove_BumpsVersion(m, key) ==
    LET i == AsUsize(key.slot) IN
    IF InRange(m, i)
    THEN IF At(m, i).version # key.version
         THEN [panic |-> FALSE, map |-> m, ret |-> None]
         ELSE IF IsFree(At(m, i).content)
         THEN [panic |-> FALSE, map |-> m, ret |-> None]
         ELSE LET prev == At(m, i).content IN
              [panic |-> ~IsOccupied(prev),
               map   |-> [m EXCEPT !.entries[i + 1] =
                                       Entry(WrappingAdd1(At(m, i).version),
                                             Free(m.next_free)),
                                   !.next_free = AsUsize(key.slot),
                                   !.len = m.len - 1],
               ret   |-> IF IsOccupied(prev) THEN Some(prev.val) ELSE None]
    ELSE [panic |-> FALSE, map |-> m, ret |-> None]

\* a faulty remove: len is not decremented
remove_KeepsLen(m, key) ==
    LET i == AsUsize(key.slot) IN
    IF InRange(m, i)
    THEN IF At(m, i).version # key.version
         THEN [panic |-> FALSE, map |-> m, ret |-> None]
         ELSE IF IsFree(At(m, i).content)
         THEN [panic |-> FALSE, map |-> m, ret |-> None]
         ELSE LET prev == At(m, i).content IN
              [panic |-> ~IsOccupied(prev),
               map   |-> [m EXCEPT !.entries[i + 1].content = Free(m.next_free),
                                   !.next_free = AsUsize(key.slot)],
               ret   |-> IF IsOccupied(prev) THEN Some(prev.val) ELSE None]
    ELSE [panic |-> FALSE, map |-> m, ret |-> None]

\* a faulty remove: next_free is not set to the freed position
remove_KeepsNextFree(m, key) ==
    LET i == AsUsize(key.slot) IN
    IF InRange(m, i)
    THEN IF At(m, i).version # key.version
         THEN [panic |-> FALSE, map |-> m, ret |-> None]
         ELSE IF IsFree(At(m, i).content)
         THEN [panic |-> FALSE, map |-> m, ret |-> None]
         ELSE LET prev == At(m, i).content IN
              [panic |-> ~IsOccupied(prev),
               map   |-> [m EXCEPT !.entries[i + 1].content = Free(m.next_free),
                                   !.len = m.len - 1],
               ret   |-> IF IsOccupied(prev) THEN Some(prev.val) ELSE None]
    ELSE [panic |-> FALSE, map |-> m, ret |-> None]

\* a faulty remove: an entry that is already Free is freed again
remove_NoFreeCheck(m, key) ==
    LET i == AsUsize(key.slot) IN
    IF InRange(m, i)
    THEN IF At(m, i).version # key.version
         THEN [panic |-> FALSE, map |-> m, ret |-> None]
         ELSE LET prev == At(m, i).content IN
              [panic |-> ~IsOccupied(prev),
               map   |-> [m EXCEPT !.entries[i + 1].content = Free(m.next_free),
                                   !.next_free = AsUsize(key.slot),
                                   !.len = m.len - 1],
               ret   |-> IF IsOccupied(prev) THEN Some(prev.val) ELSE None]
    ELSE [panic |-> FALSE, map |-> m, ret |-> None]

\* a faulty remove: the version of the key is not compared
remove_NoVersionCheck(m, key) ==
    LET i == AsUsize(key.slot) IN
    IF InRange(m, i)
    THEN IF IsFree(At(m, i).content)
         THEN [panic |-> FALSE, map |-> m, ret |-> None]
         ELSE LET prev == At(m, i).content IN
              [panic |-> ~IsOccupied(prev),
               map   |-> [m EXCEPT !.entries[i + 1].content = Free(m.next_free),
                                   !.next_free = AsUsize(key.slot),
                                   !.len = m.len - 1],
               ret   |-> IF IsOccupied(prev) THEN Some(prev.val) ELSE None]
    ELSE [panic |-> FALSE, map |-> m, ret |-> None]

\* SlotMapVec::remove
remove(m, key) ==
    LET i == AsUsize(key.slot) IN
    IF InRange(m, i)
    THEN IF At(m, i).version # key.version
         THEN [panic |-> FALSE, map |-> m, ret |-> None]
         ELSE IF IsFree(At(m, i).content)
         THEN [panic |-> FALSE, map |-> m, ret |-> None]
         ELSE LET prev == At(m, i).content IN
              [panic |-> ~IsOccupied(prev),
               map   |-> [m EXCEPT !.entries[i + 1].content = Free(m.next_free),
                                   !.next_free = AsUsize(key.slot),
                                   !.len = m.len - 1],
               ret   |-> IF IsOccupied(prev) THEN Some(prev.val) ELSE None]
    ELSE [panic |-> FALSE, map |-> m, ret |-> None]

(***************************************************************************)
(* Iterators.  An iterator is [pos, curr]: how many entries the slice      *)
(* iterator has handed out, and the running position counter.              *)
(***************************************************************************)
\* SlotMapVec::iter
iter(m) == [pos |-> 0, curr |-> 0]

\* SlotMapVec::iter_mut
iter_mut(m) == [pos |-> 0, curr |-> 0]

\* a faulty Iter::next: curr advances only past the entries it yields
RECURSIVE Iter_next_CurrStalls(_, _)
Iter_next_CurrStalls(m, it) ==
    IF it.pos < Len(m.entries)
    THEN LET entry == At(m, it.pos)
             key   == SlotMapIndex(AsU32(it.curr), entry.version)
         IN  IF IsOccupied(entry.content)
             THEN [it |-> [pos |-> it.pos + 1, curr |-> it.curr + 1],
                   item |-> Some(<<key, entry.content.val>>)]
             ELSE Iter_next_CurrStalls(m, [pos |-> it.pos + 1, curr |-> it.curr])
    ELSE [it |-> it, item |-> None]

\* Iter::next: [it, item], item = Some(<<key, value>>) or None
RECURSIVE Iter_next(_, _)
Iter_next(m, it) ==
    IF it.pos < Len(m.entries)
    THEN LET entry == At(m, it.pos)
             key   == SlotMapIndex(AsU32(it.curr), entry.version)
             it2   == [pos |-> it.pos + 1, curr |-> it.curr + 1]
         IN  IF IsOccupied(entry.content)
             THEN [it |-> it2, item |-> Some(<<key, entry.content.val>>)]
             ELSE Iter_next(m, it2)
    ELSE [it |-> it, item |-> None]

\* IterMut::next: [it, item], item = Some(<<key, position referenced>>) or None
RECURSIVE IterMut_next(_, _)
IterMut_next(m, it) ==
    IF it.pos < Len(m.entries)
    THEN LET entry == At(m, it.pos)
             key   == SlotMapIndex(AsU32(it.curr), entry.version)
             it2   == [pos |-> it.pos + 1, curr |-> it.curr + 1]
         IN  IF IsOccupied(entry.content)
             THEN [it |-> it2, item |-> Some(<<key, it.pos>>)]
             ELSE IterMut_next(m, it2)
    ELSE [it |-> it, item |-> None]

\* `for (k, v) in m.iter()`: the items of one iterator run to exhaustion
RECURSIVE IterCollect(_, _)
IterCollect(m, it) ==
    LET r == Iter_next(m, it) IN
    IF r.item = None THEN <<>> ELSE <<r.item[1]>> \o IterCollect(m, r.it)

\* `for (k, v) in m.iter_mut() { *v = val }`: [map, items], the container
\* after the loop and the <<key, value before the write>> pairs it visited
RECURSIVE IterMutCollect(_, _, _)
IterMutCollect(m, it, val) ==
    LET r == IterMut_next(m, it) IN
    IF r.item = None THEN [map |-> m, items |-> <<>>]
    ELSE LET key  == r.item[1][1]
             i    == r.item[1][2]
             rest == IterMutCollect(WriteAt(m, i, val), r.it, val)
         IN  [map |-> rest.map,
              items |-> <<(<<key, At(m, i).content.val>>)>> \o rest.items]

(***************************************************************************)
(* The state machine.  entries, next_free and len are the fields of the    *)
(* SlotMapVec; halted is set once a call has panicked.  History, kept for  *)
(* the properties only: issued (keys returned by insert), removed (keys    *)
(* whose remove returned a value), wrapped (positions whose version has    *)
(* wrapped from u32::MAX to 0), freed (the positions that remove has freed *)
(* and insert has not recycled since, the latest first), max_len (largest  *)
(* len so far), inserts (insert calls made) and last (the last call: its   *)
(* name, key and value arguments, what it returned, whether it panicked).  *)
(***************************************************************************)
map == SlotMapVec(entries, next_free, len)

\* the keys a caller presents: every position the run can create and one
\* beyond, with every version the run can create and u32::MAX
KeySlots == 0 .. MaxInserts
KeyVersions == (0 .. MaxInserts - 1) \cup {U32_MAX}
Keys == {SlotMapIndex(s, v) : s \in KeySlots, v \in KeyVersions}

Call(op, key, val, ret, panic) ==
    [op |-> op, key |-> key, val |-> val, ret |-> ret, panic |-> panic]

Max(a, b) == IF a >= b THEN a ELSE b

\* the next insert recycles an entry (takes the else branch)
Recycles(m) == m.next_free # Len(m.entries)

\* the next insert recycles an entry whose version is u32::MAX
Overflows(m) ==
    Recycles(m) /\ InRange(m, m.next_free) /\ At(m, m.next_free).version = U32_MAX

(***************************************************************************)
(* A container of about 2^32 entries, which no sequence of the model can   *)
(* hold.  It is the container after n inserts and no remove: n entries,    *)
(* all Occupied with version 0, next_free = entries.len() = n.  It is      *)
(* followed by n alone; wide is [len, op, slot, ret]: n, the last call,    *)
(* the position the call made its key from, and the key.                   *)
(***************************************************************************)
Window == 8

\* the lengths and positions within Window of 2^32
WidePositions ==
    {Usize64(0, U32_MAX - k) : k \in 0 .. Window - 1}
        \cup {Usize64(1, k) : k \in 0 .. Window}

Wide(n, op, slot, ret) == [len |-> n, op |-> op, slot |-> slot, ret |-> ret]

\* SlotMapVec::insert, the branch next_free == entries.len(), on n entries:
\* the new length, the position of the entry pushed, the key returned
insert_grow_wide(n) ==
    LET slot == n IN
    [len  |-> Usize64Add1(n),
     slot |-> slot,
     ret  |-> SlotMapIndex(Usize64AsU32(slot), 0)]

\* Iter::next and IterMut::next: the key made for the entry at position curr
Iter_next_wide(curr) == SlotMapIndex(Usize64AsU32(curr), 0)

\* let mut map = SlotMapVec::new();
Init ==
    /\ entries = new.entries
    /\ next_free = new.next_free
    /\ len = new.len
    /\ halted = FALSE
    /\ issued = {}
    /\ removed = {}
    /\ wrapped = {}
    /\ freed = <<>>
    /\ max_len = 0
    /\ inserts = 0
    /\ last = Call("new", None, 0, None, FALSE)
    /\ wide = Wide(Usize64(0, 0), "new", None, None)

\* map.insert(val)
Insert(val, overflow_checks) ==
    /\ ~halted
    /\ inserts < MaxInserts
    /\ LET r == insert(map, val, overflow_checks) IN
       /\ entries' = r.map.entries
       /\ next_free' = r.map.next_free
       /\ len' = r.map.len
       /\ halted' = r.panic
       /\ issued' = IF r.panic THEN issued ELSE issued \cup {r.ret}
       /\ wrapped' = IF ~r.panic /\ Overflows(map) THEN wrapped \cup {next_free}
                     ELSE wrapped
       /\ freed' = IF ~r.panic /\ Len(r.map.entries) = Len(entries) /\ freed # <<>>
                   THEN Tail(freed)
                   ELSE freed
       /\ max_len' = Max(max_len, r.map.len)
       /\ last' = Call("insert", None, val, r.ret, r.panic)
    /\ inserts' = inserts + 1
    /\ UNCHANGED <<removed, wide>>

\* map.remove(key)
Remove(key) ==
    /\ ~halted
    /\ LET r == remove(map, key) IN
       /\ entries' = r.map.entries
       /\ next_free' = r.map.next_free
       /\ len' = r.map.len
       /\ halted' = r.panic
       /\ removed' = IF r.ret # None THEN removed \cup {key} ELSE removed
       /\ freed' = IF r.ret # None THEN <<AsUsize(key.slot)>> \o freed ELSE freed
       /\ last' = Call("remove", key, 0, r.ret, r.panic)
    /\ UNCHANGED <<issued, wrapped, max_len, inserts, wide>>

\* map.get(key)
Get(key) ==
    /\ ~halted
    /\ last' = Call("get", key, 0, get(map, key), FALSE)
    /\ UNCHANGED <<entries, next_free, len, halted, issued, removed, wrapped,
                 freed, max_len, inserts, wide>>

\* if let Some(v) = map.get_mut(key) { *v = val }
GetMut(key, val) ==
    /\ ~halted
    /\ LET r == get_mut(map, key)
           m == IF r = None THEN map ELSE WriteAt(map, r[1], val)
       IN  /\ entries' = m.entries
           /\ next_free' = m.next_free
           /\ len' = m.len
           /\ last' = Call("get_mut", key, val, r, FALSE)
    /\ UNCHANGED <<halted, issued, removed, wrapped, freed, max_len, inserts, wide>>

\* map.contains(key)
Contains(key) ==
    /\ ~halted
    /\ last' = Call("contains", key, 0, contains(map, key), FALSE)
    /\ UNCHANGED <<entries, next_free, len, halted, issued, removed, wrapped,
                 freed, max_len, inserts, wide>>

\* map[key]
Index(key) ==
    /\ ~halted
    /\ LET r == index(map, key) IN
       /\ halted' = r.panic
       /\ last' = Call("index", key, 0, r.ret, r.panic)
    /\ UNCHANGED <<entries, next_free, len, issued, removed, wrapped, freed,
                 max_len, inserts, wide>>

\* map[key] = val
IndexMut(key, val) ==
    /\ ~halted
    /\ LET r == index_mut(map, key)
           m == IF r.panic THEN map ELSE WriteAt(map, r.ret[1], val)
       IN  /\ entries' = m.entries
           /\ next_free' = m.next_free
           /\ len' = m.len
           /\ halted' = r.panic
           /\ last' = Call("index_mut", key, val, r.ret, r.panic)
    /\ UNCHANGED <<issued, removed, wrapped, freed, max_len, inserts, wide>>

\* for (k, v) in map.iter() { .. }
IterAll ==
    /\ ~halted
    /\ last' = Call("iter", None, 0, IterCollect(map, iter(map)), FALSE)
    /\ UNCHANGED <<entries, next_free, len, halted, issued, removed, wrapped,
                 freed, max_len, inserts, wide>>

\* for (k, v) in map.iter_mut() { *v = val }
IterMutAll(val) ==
    /\ ~halted
    /\ LET r == IterMutCollect(map, iter_mut(map), val) IN
       /\ entries' = r.map.entries
       /\ next_free' = r.map.next_free
       /\ len' = r.map.len
       /\ last' = Call("iter_mut", None, val, r.items, FALSE)
    /\ UNCHANGED <<halted, issued, removed, wrapped, freed, max_len, inserts, wide>>

Next ==
    \/ \E val \in Values, overflow_checks \in BOOLEAN : Insert(val, overflow_checks)
    \/ \E key \in Keys : Remove(key)
    \/ \E key \in Keys : Get(key)
    \/ \E key \in Keys, val \in Values : GetMut(key, val)
    \/ \E key \in Keys : Contains(key)
    \/ \E key \in Keys : Index(key)
    \/ \E key \in Keys, val \in Values : IndexMut(key, val)
    \/ IterAll
    \/ \E val \in Values : IterMutAll(val)

\* a container fresh from SlotMapVec::new()
Spec == Init /\ [][Next]_vars

(***************************************************************************)
(* A container whose first slot has been recycled until its version is     *)
(* u32::MAX: the state after insert(10), then 2^32 - 1 rounds of           *)
(* remove + insert(10) on that slot (the k-th round sets the version to k, *)
(* none of them overflows), then remove.  The history names two of the     *)
(* keys those calls returned and removed: the first and the last.          *)
(***************************************************************************)
InitRecycled ==
    /\ entries = <<Entry(U32_MAX, Free(1))>>
    /\ next_free = 0
    /\ len = 0
    /\ halted = FALSE
    /\ issued = {SlotMapIndex(0, 0), SlotMapIndex(0, U32_MAX)}
    /\ removed = {SlotMapIndex(0, 0), SlotMapIndex(0, U32_MAX)}
    /\ wrapped = {}
    /\ freed = <<0>>
    /\ max_len = 1
    /\ inserts = 0
    /\ last = Call("remove", SlotMapIndex(0, U32_MAX), 0, Some(10), FALSE)
    /\ wide = Wide(Usize64(0, 0), "new", None, None)

\* the same operations, from the fresh container or from the recycled one
SpecRecycled == (Init \/ InitRecycled) /\ [][Next]_vars

(***************************************************************************)
(* The wide container on a 64-bit target: it starts with a length within   *)
(* Window of 2^32, reached by that many inserts, and is inserted into and  *)
(* iterated over.                                                          *)
(***************************************************************************)
InitWide ==
    /\ entries = new.entries
    /\ next_free = new.next_free
    /\ len = new.len
    /\ halted = FALSE
    /\ issued = {}
    /\ removed = {}
    /\ wrapped = {}
    /\ freed = <<>>
    /\ max_len = 0
    /\ inserts = 0
    /\ last = Call("new", None, 0, None, FALSE)
    /\ \E n \in WidePositions : wide = Wide(n, "new", None, None)

\* map.insert(val), val being any value
InsertWide ==
    /\ wide.len \in WidePositions
    /\ LET r == insert_grow_wide(wide.len) IN
       wide' = Wide(r.len, "insert", r.slot, r.ret)
    /\ UNCHANGED <<entries, next_free, len, halted, issued, removed, wrapped,
                 freed, max_len, inserts, last>>

\* for (k, v) in map.iter() { .. }, when the iterator is at position curr
IterWide(curr) ==
    /\ Usize64Less(curr, wide.len)
    /\ wide' = Wide(wide.len, "iter", curr, Iter_next_wide(curr))
    /\ UNCHANGED <<entries, next_free, len, halted, issued, removed, wrapped,
                 freed, max_len, inserts, last>>

NextWide ==
    \/ InsertWide
    \/ \E curr \in WidePositions : IterWide(curr)

SpecWide == InitWide /\ [][NextWide]_vars

(***************************************************************************)
(* Properties                                                              *)
(***************************************************************************)

\* C1 (round trip): right after insert(v) has returned the key h, get(h)
\* returns v and contains(h) is true, whether the insert pushed a new entry
\* or recycled a free one.
C1_RoundTrip ==
    (last.op = "insert" /\ ~last.panic) =>
        /\ get(map, last.ret) = Some(last.val)
        /\ contains(map, last.ret)

\* an insert that recycled a free entry has just returned, and its key reads
\* back the value inserted
C1_Witness ==
    /\ last.op = "insert" /\ ~last.panic
    /\ last.ret.version = 1
    /\ Len(entries) >= 2
    /\ get(map, last.ret) = Some(last.val)

\* C2 (handle stability): every insert, and every remove called with another
\* key, leaves each key that insert has returned and that is valid before the
\* call valid after it, reading the same value.
C2_HandleStability ==
    [][\A h \in issued :
          ( /\ contains(map, h)
            /\ last'.op \in {"insert", "remove"}
            /\ ~(last'.op = "remove" /\ last'.key = h) )
          => ( /\ contains(map', h)
               /\ get(map', h) = get(map, h) )]_vars

\* an insert has recycled one entry while a key at another position is valid
C2_Witness ==
    /\ last.op = "insert" /\ ~last.panic
    /\ last.ret.version >= 1
    /\ \E h \in issued : h.slot # last.ret.slot /\ contains(map, h)

\* what the tombstone property says of one key
Tombstone(h) ==
    /\ ~contains(map, h)
    /\ get(map, h) = None
    /\ remove(map, h).ret = None

\* C3 as stated (tombstone): once remove(h) has returned a value, get(h) and
\* contains(h) are absent/false and remove(h) returns absent, whatever
\* operations follow.
C3_Tombstone_AsStated == \A h \in removed : Tombstone(h)

\* C3 as amended: the same, for as long as the version of the entry at h's
\* position has not wrapped from u32::MAX to 0.
C3_Tombstone ==
    \A h \in removed : AsUsize(h.slot) \notin wrapped => Tombstone(h)

\* a second remove(h) has returned absent after h's position was recycled
C3_Witness ==
    /\ last.op = "remove" /\ last.ret = None
    /\ last.key \in removed
    /\ AsUsize(last.key.slot) \notin wrapped
    /\ contains(map, SlotMapIndex(last.key.slot, last.key.version + 1))

\* C4 as stated (version discrimination): every insert that recycles an entry
\* returns a key whose version is greater than that of every key issued
\* before at the same position, and none of those keys matches the entry.
C4_VersionDiscrimination_AsStated ==
    [][( /\ inserts' = inserts + 1
         /\ ~last'.panic
         /\ Recycles(map) )
       => \A h \in issued :
             h.slot = last'.ret.slot =>
                 /\ U32Less(h.version, last'.ret.version)
                 /\ ~contains(map', h)]_vars

\* C4 as amended: the same, for every recycling insert at a position whose
\* version has not wrapped from u32::MAX to 0.
C4_VersionDiscrimination ==
    [][( /\ inserts' = inserts + 1
         /\ ~last'.panic
         /\ Recycles(map)
         /\ AsUsize(last'.ret.slot) \notin wrapped' )
       => \A h \in issued :
             h.slot = last'.ret.slot =>
                 /\ U32Less(h.version, last'.ret.version)
                 /\ ~contains(map', h)]_vars

\* one position has been recycled twice: the key returned has version 2 and
\* the two keys issued there before are stale
C4_Witness ==
    /\ last.op = "insert" /\ ~last.panic
    /\ last.ret.version = 2
    /\ AsUsize(last.ret.slot) \notin wrapped
    /\ \A v \in {0, 1} :
          /\ SlotMapIndex(last.ret.slot, v) \in issued
          /\ ~contains(map, SlotMapIndex(last.ret.slot, v))

\* the positions of entries that earlier inserts pushed into the wide
\* container: the first ones, and those within Window of 2^32
EarlierPositions ==
    {Usize64(0, k) : k \in 0 .. Window} \cup WidePositions

\* C5 as stated (key uniqueness): no insert returns a key that an earlier
\* insert on the same container returned.  In the container of the model the
\* earlier keys are those in issued; in the wide container, which has only
\* been inserted into, they are the keys that the inserts pushing the entries
\* before the new one returned.
C5_HandleUniqueness_AsStated ==
    [][ /\ (inserts' = inserts + 1 /\ ~last'.panic) => last'.ret \notin issued
        /\ (wide'.op = "insert" /\ wide' # wide) =>
              \A p \in EarlierPositions :
                  Usize64Less(p, wide'.slot) =>
                      insert_grow_wide(p).ret # wide'.ret ]_vars

\* Key uniqueness where no u32 is exceeded: while the container has at most
\* 2^32 entries, no insert returns a key that an earlier one returned, except
\* at a position whose version has wrapped from u32::MAX to 0.
C5_HandleUniqueness ==
    [][( /\ inserts' = inserts + 1
         /\ ~last'.panic
         /\ AsUsize(last'.ret.slot) \notin wrapped' )
       => last'.ret \notin issued]_vars

\* three inserts, one of them recycling, have returned three different keys
C5_Witness ==
    /\ last.op = "insert" /\ ~last.panic
    /\ last.ret.version >= 1
    /\ wrapped = {}
    /\ inserts = 3
    /\ Cardinality(issued) = 3

\* the number of Occupied entries
OccupiedCount(m) ==
    Cardinality({i \in 1 .. Len(m.entries) : IsOccupied(m.entries[i].content)})

\* C6 (length consistency): len() is the number of Occupied entries and the
\* number of issued keys that are valid, lies in 0 .. entries.len(), and
\* is_empty() holds exactly when that number is 0.
C6_LengthConsistency ==
    /\ len_of(map) = OccupiedCount(map)
    /\ len_of(map) = Cardinality({h \in issued : contains(map, h)})
    /\ 0 <= len_of(map)
    /\ len_of(map) <= Len(entries)
    /\ is_empty(map) <=> (OccupiedCount(map) = 0)

\* a remove with the key of an entry that is already Free has returned absent,
\* with one entry Occupied and one Free
C6_Witness ==
    /\ last.op = "remove" /\ last.ret = None
    /\ InRange(map, AsUsize(last.key.slot))
    /\ IsFree(At(map, AsUsize(last.key.slot)).content)
    /\ At(map, AsUsize(last.key.slot)).version = last.key.version
    /\ len_of(map) = 1
    /\ Len(entries) = 2

\* the <<key, value>> pairs of the keys for which contains is true
ValidPairs(m) == {<<k, get(m, k)[1]>> : k \in {k \in Keys : contains(m, k)}}

\* what iteration completeness says of the items of one traversal
Complete(items, m) ==
    /\ {items[i] : i \in 1 .. Len(items)} = ValidPairs(m)
    /\ Len(items) = Cardinality(ValidPairs(m))
    /\ \A i, j \in 1 .. Len(items) :
          i < j => AsUsize(items[i][1].slot) < AsUsize(items[j][1].slot)
    /\ Len(items) = len_of(m)

\* C7 (iteration completeness): a fresh iter(), and a fresh iter_mut(), run to
\* exhaustion yields exactly the <<key, value>> pairs whose key is valid, each
\* once, by increasing position, skipping Free entries; len() of them.
C7_IterationCompleteness ==
    /\ Complete(IterCollect(map, iter(map)), map)
    /\ \A val \in Values :
          Complete(IterMutCollect(map, iter_mut(map), val).items, map)

\* an iteration has skipped a Free first entry and yielded the two after it
C7_Witness ==
    /\ last.op = "iter"
    /\ Len(entries) = 3
    /\ IsFree(entries[1].content)
    /\ Len(last.ret) = 2
    /\ last.ret[1][1].slot = 1
    /\ last.ret[2][1].slot = 2

\* C8 (no premature growth): insert pushes a new entry only when no entry is
\* Free, which is when len == entries.len(); otherwise it recycles a Free entry
\* and entries.len() is unchanged; so entries.len() is always the largest len
\* there has been.
C8_NoPrematureGrowth ==
    /\ [](Len(entries) = max_len)
    /\ [][(inserts' = inserts + 1 /\ ~last'.panic) =>
            IF len = Len(entries)
            THEN /\ \A i \in 1 .. Len(entries) : ~IsFree(entries[i].content)
                 /\ Len(entries') = Len(entries) + 1
            ELSE /\ Len(entries') = Len(entries)
                 /\ IsFree(At(map, AsUsize(last'.ret.slot)).content)]_vars

\* two inserts, one remove and one more insert: entries.len() is 2
C8_Witness ==
    /\ last.op = "insert" /\ ~last.panic
    /\ inserts = 3
    /\ last.ret.version = 1
    /\ Len(entries) = 2
    /\ len = 2

\* a key that is out of range, stale, or of a Free entry
Invalid(m, k) ==
    \/ ~InRange(m, AsUsize(k.slot))
    \/ At(m, AsUsize(k.slot)).version # k.version
    \/ IsFree(At(m, AsUsize(k.slot)).content)

\* C9 (expected absence): for such a key get, get_mut and remove return absent
\* and contains returns false, none of them panics, and remove leaves entries,
\* next_free and len as they were.
C9_ExpectedAbsence ==
    \A k \in Keys :
        Invalid(map, k) =>
            /\ get(map, k) = None
            /\ get_mut(map, k) = None
            /\ contains(map, k) = FALSE
            /\ remove(map, k).ret = None
            /\ ~remove(map, k).panic
            /\ remove(map, k).map = map

\* a remove with a stale key for an Occupied entry has returned absent, while
\* the free list is not empty
C9_Witness ==
    /\ last.op = "remove" /\ last.ret = None /\ ~halted
    /\ InRange(map, AsUsize(last.key.slot))
    /\ IsOccupied(At(map, AsUsize(last.key.slot)).content)
    /\ At(map, AsUsize(last.key.slot)).version # last.key.version
    /\ len < Len(entries)

\* entries[k.slot] exists, is Occupied and has the version of k
Valid(m, k) ==
    /\ InRange(m, AsUsize(k.slot))
    /\ IsOccupied(At(m, AsUsize(k.slot)).content)
    /\ At(m, AsUsize(k.slot)).version = k.version

\* C10 (lookup agreement): for every key, contains, get, get_mut, index and
\* index_mut agree with one another and with Valid; index returns what get
\* returns for a valid key, and index and index_mut panic, returning nothing,
\* for any other.
C10_LookupAgreement ==
    \A k \in Keys :
        /\ contains(map, k) <=> Valid(map, k)
        /\ (get(map, k) # None) <=> Valid(map, k)
        /\ (get_mut(map, k) # None) <=> Valid(map, k)
        /\ (~index(map, k).panic) <=> Valid(map, k)
        /\ (~index_mut(map, k).panic) <=> Valid(map, k)
        /\ Valid(map, k) =>
              /\ index(map, k).ret = get(map, k)
              /\ index_mut(map, k).ret = get_mut(map, k)
              /\ get(map, k) = Some(At(map, AsUsize(k.slot)).content.val)
        /\ ~Valid(map, k) =>
              /\ index(map, k).ret = None
              /\ index_mut(map, k).ret = None

\* map[key] has panicked on a key that insert returned and that is stale,
\* its entry being Occupied again
C10_Witness ==
    /\ last.op = "index" /\ last.panic /\ halted
    /\ last.key \in issued
    /\ InRange(map, AsUsize(last.key.slot))
    /\ IsOccupied(At(map, AsUsize(last.key.slot)).content)
    /\ At(map, AsUsize(last.key.slot)).version # last.key.version

\* C11 (successful remove): for every valid key, remove returns the value
\* that get returns just before (whatever was last written there), takes 1
\* off len, leaves entries.len() as it is and changes no entry but the one at
\* the position of the key, which becomes Free, linked to the old next_free.
C11_SuccessfulRemove ==
    \A k \in Keys :
        Valid(map, k) =>
            LET r == remove(map, k) IN
            /\ ~r.panic
            /\ r.ret = get(map, k)
            /\ r.ret # None
            /\ r.map.len = len_of(map) - 1
            /\ Len(r.map.entries) = Len(entries)
            /\ \A i \in 0 .. Len(entries) - 1 :
                  i # AsUsize(k.slot) => At(r.map, i) = At(map, i)
            /\ At(r.map, AsUsize(k.slot)).content = Free(next_free)
            /\ r.map.next_free = AsUsize(k.slot)

\* a remove with a key that insert returned has returned the value stored,
\* leaving one entry Occupied and the freed one at the head of the free list
C11_Witness ==
    /\ last.op = "remove" /\ last.ret = Some(20) /\ ~halted
    /\ last.key \in issued
    /\ IsFree(At(map, AsUsize(last.key.slot)).content)
    /\ next_free = AsUsize(last.key.slot)
    /\ len = 1
    /\ Len(entries) = 2

\* C12 (the internal panics are unreachable): whenever next_free is not
\* entries.len(), the entry at next_free exists and is Free, so the reuse
\* branch of insert neither indexes out of bounds nor finds a content that is
\* not Free (the only panic left to insert is the overflow of `version + 1`
\* in a build with overflow checks); and remove never panics.
C12_NoInternalPanic ==
    /\ Recycles(map) =>
          /\ next_free < Len(entries)
          /\ InRange(map, next_free)
          /\ IsFree(At(map, next_free).content)
    /\ \A val \in Values, overflow_checks \in BOOLEAN :
          insert(map, val, overflow_checks).panic =>
              (overflow_checks /\ Overflows(map))
    /\ \A k \in Keys : ~remove(map, k).panic
    /\ (halted /\ last.op \notin {"index", "index_mut"}) =>
          (last.op = "insert" /\ Overflows(map))

\* an insert has recycled an entry and the free list still holds another one,
\* which the next insert will recycle
C12_Witness ==
    /\ last.op = "insert" /\ ~last.panic /\ ~halted
    /\ last.ret.version >= 1
    /\ Recycles(map)
    /\ IsFree(At(map, next_free).content)

\* the positions met by following the links from position p, at most fuel of them
RECURSIVE FreeChain(_, _, _)
FreeChain(m, p, fuel) ==
    IF fuel = 0 \/ ~InRange(m, p) \/ ~IsFree(At(m, p).content)
    THEN <<>>
    ELSE <<p>> \o FreeChain(m, At(m, p).content.next, fuel - 1)

\* the link value at which that walk stops
RECURSIVE ChainEnd(_, _, _)
ChainEnd(m, p, fuel) ==
    IF fuel = 0 \/ ~InRange(m, p) \/ ~IsFree(At(m, p).content)
    THEN p
    ELSE ChainEnd(m, At(m, p).content.next, fuel - 1)

\* the positions of the Free entries
FreePositions(m) ==
    {i \in 0 .. Len(m.entries) - 1 : IsFree(At(m, i).content)}

\* C13 (free list well-formed): the links followed from next_free visit every
\* Free entry once and nothing else, and end at the link value entries.len();
\* there are entries.len() - len of them, and next_free == entries.len()
\* exactly when no entry is Free.
C13_FreeListWellFormed ==
    LET chain == FreeChain(map, next_free, Len(entries) + 1) IN
    /\ Cardinality({chain[i] : i \in 1 .. Len(chain)}) = Len(chain)
    /\ {chain[i] : i \in 1 .. Len(chain)} = FreePositions(map)
    /\ ChainEnd(map, next_free, Len(entries) + 1) = Len(entries)
    /\ Len(chain) = Len(entries) - len
    /\ (next_free = Len(entries)) <=> (FreePositions(map) = {})

\* two removes have put two entries on the free list, before an Occupied one
C13_Witness ==
    /\ last.op = "remove" /\ last.ret # None
    /\ Len(entries) = 3
    /\ len = 1
    /\ FreeChain(map, next_free, 4) = <<1, 0>>

\* the example of the claim, run on the operations themselves: insert 10, 20
\* and 30, remove the second key, insert 99
C14_Example ==
    \A overflow_checks \in BOOLEAN :
        LET r1 == insert(new, 10, overflow_checks)
            r2 == insert(r1.map, 20, overflow_checks)
            r3 == insert(r2.map, 30, overflow_checks)
            rm == remove(r3.map, r2.ret)
            r4 == insert(rm.map, 99, overflow_checks)
        IN  /\ r1.ret = SlotMapIndex(0, 0)
            /\ r2.ret = SlotMapIndex(1, 0)
            /\ r3.ret = SlotMapIndex(2, 0)
            /\ rm.ret = Some(20)
            /\ get(rm.map, r2.ret) = None
            /\ r4.ret = SlotMapIndex(1, 1)
            /\ get(r4.map, r1.ret) = Some(10)
            /\ get(r4.map, r3.ret) = Some(30)
            /\ get(r4.map, r4.ret) = Some(99)
            /\ len_of(r4.map) = 3
            /\ ~contains(r4.map, r2.ret)

\* C14 (LIFO reuse): when an entry is Free, insert puts the value at the
\* position freed last and not recycled since, returns that position with the
\* version the entry had plus 1, and sets next_free to the link the entry
\* held; and the example of the claim comes out as stated.
C14_LIFOReuse ==
    /\ []C14_Example
    /\ [][( /\ inserts' = inserts + 1
            /\ ~last'.panic
            /\ len < Len(entries) )
          => /\ freed # <<>>
             /\ AsUsize(last'.ret.slot) = Head(freed)
             /\ last'.ret.version = At(map, Head(freed)).version + 1
             /\ next_free' = At(map, Head(freed)).content.next
             /\ At(map', Head(freed)) =
                    Entry(last'.ret.version, Occupied(last'.val))
             /\ Len(entries') = Len(entries)]_vars

\* positions 0 and 1 were freed in that order and an insert has recycled
\* position 1, leaving position 0 at the head of the free list
C14_Witness ==
    /\ last.op = "insert" /\ ~last.panic
    /\ last.ret = SlotMapIndex(1, 1)
    /\ freed = <<0>>
    /\ next_free = 0
    /\ IsFree(At(map, 0).content)

\* C15 (version lifecycle): an entry is created with version 0; no call
\* changes the version of an entry except an insert that recycles it, which
\* adds 1 to it; so a Free entry carries the version of the key issued last at
\* its position, and that key is refused only because the content is Free.
C15_VersionLifecycle ==
    /\ [][ /\ Len(entries') >= Len(entries)
           /\ \A i \in 0 .. Len(entries) - 1 :
                 At(map', i).version =
                     IF /\ inserts' = inserts + 1
                        /\ ~last'.panic
                        /\ Recycles(map)
                        /\ i = next_free
                     THEN At(map, i).version + 1
                     ELSE At(map, i).version
           /\ \A i \in Len(entries) .. Len(entries') - 1 :
                 At(map', i).version = 0 ]_vars
    /\ [](\A i \in FreePositions(map) :
             LET h == SlotMapIndex(AsU32(i), At(map, i).version) IN
             /\ h \in issued
             /\ h \in removed
             /\ ~contains(map, h)
             /\ \A g \in issued : g.slot = h.slot => ~U32Less(h.version, g.version))

\* a remove has freed an entry that had been recycled once: the entry is Free
\* and still has version 1, the version of the key just removed
C15_Witness ==
    /\ last.op = "remove" /\ last.ret # None
    /\ last.key.version = 1
    /\ IsFree(At(map, AsUsize(last.key.slot)).content)
    /\ At(map, AsUsize(last.key.slot)).version = 1

\* C16 (storage length is monotone): entries.len() never decreases; an
\* insert changes it by 0 or +1 and every other call leaves it as it is, so a
\* position that is in range stays in range.
C16_LengthMonotone ==
    [][ /\ Len(entries') >= Len(entries)
        /\ IF inserts' = inserts + 1
           THEN Len(entries') \in {Len(entries), Len(entries) + 1}
           ELSE Len(entries') = Len(entries)
        /\ \A i \in 0 .. Len(entries) - 1 : InRange(map', i) ]_vars

\* a remove has freed the entry at the tail of the storage, which still has
\* its two entries
C16_Witness ==
    /\ last.op = "remove" /\ last.ret # None
    /\ AsUsize(last.key.slot) = Len(entries) - 1
    /\ Len(entries) = 2
    /\ IsFree(At(map, 1).content)

\* the handles a mutating call has written through, and their positions
Written(l) ==
    IF l.op = "iter_mut"
    THEN {l.ret[n][1] : n \in 1 .. Len(l.ret)}
    ELSE IF l.op \in {"get_mut", "index_mut"} /\ l.ret # None
    THEN {l.key}
    ELSE {}

WrittenPositions(l) == {AsUsize(h.slot) : h \in Written(l)}

\* C17 (mutation frame): a write through get_mut, index_mut or iter_mut
\* changes only the value of the Occupied entries it touches.  The valid
\* handles (every key insert has returned is valid after the call exactly if
\* it was before), every entry's version and Free/Occupied status, the Free
\* links, next_free, len and entries.len() are unchanged; every other entry is
\* unchanged; iter_mut yields each handle with the value it held; afterwards
\* get(h) is the value written, for every handle h written through.
C17_MutationFrame ==
    [][ last'.op \in {"get_mut", "index_mut", "iter_mut"} =>
        /\ Len(entries') = Len(entries)
        /\ next_free' = next_free
        /\ len' = len
        /\ \A k \in issued : contains(map', k) = contains(map, k)
        /\ \A i \in 0 .. Len(entries) - 1 :
              /\ At(map', i).version = At(map, i).version
              /\ IsFree(At(map', i).content) = IsFree(At(map, i).content)
              /\ IsFree(At(map, i).content) => At(map', i) = At(map, i)
              /\ i \notin WrittenPositions(last') => At(map', i) = At(map, i)
        /\ \A h \in Written(last') :
              /\ contains(map, h)
              /\ get(map', h) = Some(last'.val)
        /\ last'.op = "iter_mut" =>
              /\ Written(last') = {k \in Keys : contains(map, k)}
              /\ Len(last'.ret) = len
              /\ \A n \in 1 .. Len(last'.ret) :
                    get(map, last'.ret[n][1]) = Some(last'.ret[n][2]) ]_vars

\* an iter_mut loop has written a new value into a recycled entry and passed
\* over a Free entry
C17_Witness ==
    /\ last.op = "iter_mut"
    /\ Len(last.ret) >= 1
    /\ \E n \in 1 .. Len(last.ret) :
          /\ last.ret[n][2] # last.val
          /\ last.ret[n][1].version = 1
    /\ \A n \in 1 .. Len(last.ret) : get(map, last.ret[n][1]) = Some(last.val)
    /\ \E i \in 0 .. Len(entries) - 1 : IsFree(At(map, i).content)

\* C18 (version overflow): when insert recycles an entry whose version is
\* u32::MAX and `version + 1` is taken modulo 2^32, the key it returns has
\* version 0 and equals a key issued and removed earlier at that position;
\* that stale key matches again: contains is true and get returns the value
\* just inserted.
C18_VersionOverflow ==
    [][ (inserts' = inserts + 1 /\ ~last'.panic /\ Overflows(map)) =>
        /\ last'.ret = SlotMapIndex(AsU32(next_free), 0)
        /\ last'.ret \in issued
        /\ last'.ret \in removed
        /\ ~contains(map, last'.ret)
        /\ contains(map', last'.ret)
        /\ get(map', last'.ret) = Some(last'.val) ]_vars

\* insert has recycled the entry of version u32::MAX: the key it returned is
\* one that an earlier remove had retired
C18_Witness ==
    /\ last.op = "insert" /\ ~last.panic
    /\ last.ret = SlotMapIndex(0, 0)
    /\ 0 \in wrapped
    /\ last.ret \in removed
    /\ At(map, 0).version = 0
    /\ get(map, last.ret) = Some(last.val)

\* C19 (handle position fidelity): the position in the key that insert
\* returns, and in every key that iter and iter_mut yield, widened back to a
\* usize as get, remove and contains widen it, is the position of the entry
\* the key was made for; a key made for a new tail entry has version 0.
C19_PositionFidelity_AsStated ==
    wide.op \in {"insert", "iter"} =>
        /\ U32AsUsize64(wide.ret.slot) = wide.slot
        /\ wide.ret.version = 0

====
